---- MODULE Spec2Model ----
(***************************************************************************)
(* The session panel's SSE relay (SessionEditorPanelProvider): the panel   *)
(* registry, the api:sse:start / api:sse:stop handlers, the detached relay *)
(* task of every stream and its heartbeat timer.                           *)
(*                                                                         *)
(* Text is a sequence of tokens.  Ch(c) is the character c, or for a       *)
(* longer c a run of characters holding no white space ("data:",           *)
(* "event:message"); J(v) is the text JSON.stringify(v) of the JSON value  *)
(* v.  A stream id `sse_<counter>_<time>` is represented by its counter    *)
(* value; Date.now() inside payloads is the number 0.                      *)
(***************************************************************************)
EXTENDS Integers, Sequences, FiniteSets, TLC

VARIABLES
    panels,           \* _panels: panel id -> index of its SessionPanelState
    entries,          \* every SessionPanelState ever created (closures keep them alive);
                      \* outbox: what the panel was posted outside any stream's closures
    sseCounter,       \* _sseCounter
    streams,          \* one record per AbortController created by _startSseProxy;
                      \* posted: what its handler, relay task and timer posted to the
                      \* owner's panel, in order
    requests,         \* the bridge requests received so far; a request's id is its index
    pendingResponse   \* controller whose start response is returned but not yet posted

vars == <<panels, entries, sseCounter, streams, requests, pendingResponse>>

----------------------------------------------------------------------------
(* Bounds of the model *)

\* the events the environment may raise in one run: panels opened, bridge
\* requests sent, and reads and timer ticks that post a chunk
MaxEvents == 4

\* the start requests that reach the stream counter in one run
MaxStreams == 2

----------------------------------------------------------------------------
(* Values *)

SessionIds == {"s1"}
NewPanelIds == {"new_1"}

\* streamId: null in a response, and a payload whose streamId is no string
NullStreamId == -1
\* the empty string given as streamId
EmptyStreamId == 0

StatusUnavailable == 503
StatusBadGateway == 502

JsonHeaders == ("content-type" :> "application/json")

EventPath == <<[k |-> "ch", v |-> "/event"]>>
GlobalEventPath == <<[k |-> "ch", v |-> "/global/event"]>>

EmptyMap == [x \in {} |-> 0]

MapSet(m, k, v) == [x \in (DOMAIN m) \cup {k} |-> IF x = k THEN v ELSE m[x]]

MapDelete(m, k) == [x \in (DOMAIN m) \ {k} |-> m[x]]

MapValues(m) == {m[x] : x \in DOMAIN m}

----------------------------------------------------------------------------
(* Text helpers *)

Ch(c) == [k |-> "ch", v |-> c]

J(v) == [k |-> "json", v |-> v]

NL == Ch("\n")

CR == Ch("\r")

SP == Ch(" ")

IsSpace(t) == t.k = "ch" /\ t.v \in {" ", "\n", "\r"}

RECURSIVE TrimStart(_)
TrimStart(t) == IF t # <<>> /\ IsSpace(Head(t)) THEN TrimStart(Tail(t)) ELSE t

RECURSIVE TrimEnd(_)
TrimEnd(t) ==
    IF t # <<>> /\ IsSpace(t[Len(t)]) THEN TrimEnd(SubSeq(t, 1, Len(t) - 1)) ELSE t

Trim(t) == TrimEnd(TrimStart(t))

\* String.prototype.split with a separator: leftmost, non-overlapping matches
RECURSIVE SplitOn(_, _, _)
SplitOn(t, sep, cur) ==
    IF t = <<>> THEN <<cur>>
    ELSE IF Len(t) >= Len(sep) /\ SubSeq(t, 1, Len(sep)) = sep
         THEN <<cur>> \o SplitOn(SubSeq(t, Len(sep) + 1, Len(t)), sep, <<>>)
         ELSE SplitOn(Tail(t), sep, Append(cur, Head(t)))

Split(t, sep) == SplitOn(t, sep, <<>>)

BlockSeparator == <<NL, NL>>

\* blocks.map((block) => `${block}\n\n`).join('')
RECURSIVE JoinBlocks(_)
JoinBlocks(blocks) ==
    IF blocks = <<>> THEN <<>>
    ELSE Head(blocks) \o BlockSeparator \o JoinBlocks(Tail(blocks))

\* chunk.replace(/\r\n/g, '\n')
RECURSIVE NormalizeCrLf(_)
NormalizeCrLf(t) ==
    IF t = <<>> THEN <<>>
    ELSE IF Len(t) >= 2 /\ t[1] = CR /\ t[2] = NL
         THEN <<NL>> \o NormalizeCrLf(SubSeq(t, 3, Len(t)))
         ELSE <<Head(t)>> \o NormalizeCrLf(Tail(t))

\* lines.join('\n')
RECURSIVE JoinLines(_)
JoinLines(lines) ==
    IF lines = <<>> THEN <<>>
    ELSE IF Len(lines) = 1 THEN Head(lines)
    ELSE Head(lines) \o <<NL>> \o JoinLines(Tail(lines))

----------------------------------------------------------------------------
(* JSON values *)

JUndefined == [t |-> "undefined"]

JNull == [t |-> "null"]

JStr(s) == [t |-> "str", v |-> s]

JNum(n) == [t |-> "num", n |-> n]

JObj(f) == [t |-> "obj", f |-> f]

JArr(items) == [t |-> "arr", items |-> items]

\* v && typeof v === 'object': an object or an array
IsObject(v) == v.t \in {"obj", "arr"}

\* o?.k and o.k of a parsed value
Get(o, key) == IF o.t = "obj" /\ key \in DOMAIN o.f THEN o.f[key] ELSE JUndefined

\* a ?? b
Coalesce(a, b) == IF a.t \in {"undefined", "null"} THEN b ELSE a

\* typeof v === 'string' && v.length > 0
IsNonEmptyString(v) == v.t = "str" /\ v.v # ""

\* JSON.parse: the text is one serialized value, or the parse throws
JsonParses(text) == Len(text) = 1 /\ text[1].k = "json"

JsonParse(text) == text[1].v

JsonStringify(v) == <<J(v)>>

----------------------------------------------------------------------------
(* Event-block codec, activity deriver, wrapper, heartbeat *)

DataPrefix == Ch("data:")

\* line.startsWith('data:')
IsDataLine(line) == line # <<>> /\ Head(line) = DataPrefix

IsNotDataLine(line) == ~IsDataLine(line)

\* line.slice(5).replace(/^\s/, '')
StripDataPrefix(line) ==
    LET rest == Tail(line)
    IN IF rest # <<>> /\ IsSpace(Head(rest)) THEN Tail(rest) ELSE rest

RECURSIVE MapStrip(_)
MapStrip(lines) ==
    IF lines = <<>> THEN <<>> ELSE <<StripDataPrefix(Head(lines))>> \o MapStrip(Tail(lines))

parseSseDataPayload(block) ==
    IF block = <<>> THEN JNull
    ELSE LET dataLines == MapStrip(SelectSeq(Split(block, <<NL>>), IsDataLine))
         IN IF dataLines = <<>> THEN JNull
            ELSE LET payloadText == Trim(JoinLines(dataLines))
                 IN IF payloadText = <<>> THEN JNull
                    ELSE IF ~JsonParses(payloadText) THEN JNull
                    ELSE LET parsed == JsonParse(payloadText)
                         IN IF IsObject(parsed)
                            THEN IF IsObject(Get(parsed, "payload"))
                                 THEN Get(parsed, "payload")
                                 ELSE parsed
                            ELSE JNull

NoActivity == [sessionId |-> "", phase |-> "none"]

\* a cooldown for every finished or unfinished assistant message
CooldownActivityAnyFinish(payload, properties) ==
    LET info == Get(payload, "info")
        sessionId == Coalesce(Get(info, "sessionID"),
                       Coalesce(Get(info, "sessionId"),
                         Coalesce(Get(properties, "sessionID"), Get(properties, "sessionId"))))
    IN IF IsNonEmptyString(sessionId) /\ Get(info, "role") = JStr("assistant")
       THEN [sessionId |-> sessionId.v, phase |-> "cooldown"]
       ELSE NoActivity

CooldownActivity(payload, properties) ==
    LET info == Get(payload, "info")
        role == Get(info, "role")
        finish == Get(info, "finish")
        sessionId == Coalesce(Get(info, "sessionID"),
                       Coalesce(Get(info, "sessionId"),
                         Coalesce(Get(properties, "sessionID"), Get(properties, "sessionId"))))
    IN IF IsNonEmptyString(sessionId) /\ role = JStr("assistant") /\ finish = JStr("stop")
       THEN [sessionId |-> sessionId.v, phase |-> "cooldown"]
       ELSE NoActivity

\* a deriver that reports an idle session when there is no payload
deriveSessionActivityDefaulting(payload) ==
    IF ~IsObject(payload) THEN [sessionId |-> "s1", phase |-> "idle"] ELSE NoActivity

\* a deriver of session.status only, for which only "busy" is busy
deriveSessionActivityRetryIdle(payload) ==
    LET properties == Get(payload, "properties")
        sessionId == Coalesce(Get(properties, "sessionID"), Get(properties, "sessionId"))
        statusType == Get(Get(properties, "status"), "type")
    IN IF /\ Get(payload, "type") = JStr("session.status")
          /\ IsNonEmptyString(sessionId)
          /\ statusType.t = "str"
       THEN [sessionId |-> sessionId.v,
             phase |-> IF statusType.v = "busy" THEN "busy" ELSE "idle"]
       ELSE NoActivity

\* a deriver of session.idle only, which reports idle without a session id
deriveSessionActivityPartial(payload) ==
    LET properties == Get(payload, "properties")
        sessionId == Coalesce(Get(properties, "sessionID"), Get(properties, "sessionId"))
    IN IF Get(payload, "type") = JStr("session.idle")
       THEN [sessionId |-> IF IsNonEmptyString(sessionId) THEN sessionId.v ELSE "",
             phase |-> "idle"]
       ELSE NoActivity

deriveSessionActivity(payload) ==
    IF ~IsObject(payload) THEN NoActivity
    ELSE LET type == Get(payload, "type")
             properties == Get(payload, "properties")
         IN IF type = JStr("session.status")
            THEN LET status == Get(properties, "status")
                     sessionId == Coalesce(Get(properties, "sessionID"), Get(properties, "sessionId"))
                     statusType == Get(status, "type")
                 IN IF IsNonEmptyString(sessionId) /\ statusType.t = "str"
                    THEN [sessionId |-> sessionId.v,
                          phase |-> IF statusType.v = "busy" \/ statusType.v = "retry"
                                    THEN "busy" ELSE "idle"]
                    ELSE NoActivity
            ELSE IF type = JStr("message.updated") THEN CooldownActivity(payload, properties)
            ELSE IF type = JStr("message.complete") THEN CooldownActivity(payload, properties)
            ELSE IF type = JStr("session.idle")
            THEN LET sessionId == Coalesce(Get(properties, "sessionID"), Get(properties, "sessionId"))
                 IN IF IsNonEmptyString(sessionId)
                    THEN [sessionId |-> sessionId.v, phase |-> "idle"]
                    ELSE NoActivity
            ELSE NoActivity

EventLine == <<Ch("event:"), SP, Ch("message")>>

buildActivityEventBlock(activity) ==
    JoinLines(<<EventLine,
                <<DataPrefix, SP>> \o JsonStringify(JObj(
                    [type |-> JStr("openchamber:session-activity"),
                     properties |-> JObj([sessionId |-> JStr(activity.sessionId),
                                          phase |-> JStr(activity.phase),
                                          at |-> JNum(0)])]))>>)

buildHeartbeatEventBlock ==
    JoinLines(<<EventLine,
                <<DataPrefix, SP>> \o JsonStringify(JObj(
                    [type |-> JStr("openchamber:heartbeat"),
                     properties |-> JObj([at |-> JNum(0)])]))>>)

\* an expansion that puts the activity block before the block it is derived from
RECURSIVE expandActivityFirst(_)
expandActivityFirst(blocks) ==
    IF blocks = <<>> THEN <<>>
    ELSE LET block == Head(blocks)
             activity == deriveSessionActivity(parseSseDataPayload(block))
         IN (IF activity # NoActivity THEN <<buildActivityEventBlock(activity)>> ELSE <<>>)
            \o <<block>>
            \o expandActivityFirst(Tail(blocks))

RECURSIVE expandSseBlocksWithActivity(_)
expandSseBlocksWithActivity(blocks) ==
    IF blocks = <<>> THEN <<>>
    ELSE LET block == Head(blocks)
             activity == deriveSessionActivity(parseSseDataPayload(block))
         IN <<block>>
            \o (IF activity # NoActivity THEN <<buildActivityEventBlock(activity)>> ELSE <<>>)
            \o expandSseBlocksWithActivity(Tail(blocks))

\* a wrapper that drops the payload of the block
WrapBlockWithoutPayload(block, directory) ==
    LET wrappedPayload == JObj([directory |-> JStr(directory), payload |-> JNull])
        updatedLines == SelectSeq(Split(block, <<NL>>), IsNotDataLine)
    IN JoinLines(Append(updatedLines, <<DataPrefix, SP>> \o JsonStringify(wrappedPayload)))

\* a wrapper that puts the payload in a field named event
WrapBlockUnderEvent(block, directory) ==
    LET wrappedPayload == JObj([directory |-> JStr(directory),
                                event |-> parseSseDataPayload(block)])
        updatedLines == SelectSeq(Split(block, <<NL>>), IsNotDataLine)
    IN JoinLines(Append(updatedLines, <<DataPrefix, SP>> \o JsonStringify(wrappedPayload)))

WrapBlock(block, directory) ==
    LET payload == parseSseDataPayload(block)
        wrappedPayload == JObj([directory |-> JStr(directory), payload |-> payload])
        updatedLines == SelectSeq(Split(block, <<NL>>), IsNotDataLine)
    IN JoinLines(Append(updatedLines, <<DataPrefix, SP>> \o JsonStringify(wrappedPayload)))

RECURSIVE wrapSseBlocksAsGlobal(_, _)
wrapSseBlocksAsGlobal(blocks, directory) ==
    IF blocks = <<>> THEN <<>>
    ELSE <<WrapBlock(Head(blocks), directory)>> \o wrapSseBlocksAsGlobal(Tail(blocks), directory)

----------------------------------------------------------------------------
(* Inputs *)

\* an absolute URL whose host does not parse: new URL(path, base) throws a TypeError
MalformedUrlPath == <<[k |-> "ch", v |-> "http://["]>>

\* payload.path: absent (no string), blank, padded, the two activity paths, another
\* path, a path that is no URL
PathInputs ==
    {[isString |-> FALSE, text |-> <<>>],
     [isString |-> TRUE, text |-> MalformedUrlPath],
     [isString |-> TRUE, text |-> <<SP>>],
     [isString |-> TRUE, text |-> <<SP, Ch("/event"), SP>>],
     [isString |-> TRUE, text |-> <<Ch("/global/event")>>],
     [isString |-> TRUE, text |-> <<Ch("/session")>>]}

\* payload.headers: absent, or overriding one of the fixed headers
HeaderInputs == {("Accept" :> "application/json")}

\* what fetch resolves with; a rejected fetch is the outcome "throw"
UpstreamResponses ==
    {[status |-> 200, hasBody |-> TRUE, headers |-> ("content-type" :> "text/event-stream")],
     [status |-> 404, hasBody |-> TRUE, headers |-> ("content-type" :> "text/plain")],
     [status |-> 200, hasBody |-> FALSE, headers |-> ("content-length" :> "0")]}

FetchOutcomes == {[kind |-> "throw"]} \cup {[kind |-> "response", response |-> r] : r \in UpstreamResponses}

ResponseOk(r) == r.status >= 200 /\ r.status <= 299

FetchFailureMessage == <<"fetch failed">>

ReadFailureMessage == <<"terminated">>

\* what one reader.read() delivers
ReadValues == {<<>>, <<Ch("a"), NL, NL, Ch("b")>>}

\* createOrShow's sessionId argument
SessionIdInputs == SessionIds \cup {""}

FallbackDirectory == "/work"

----------------------------------------------------------------------------
(* State *)

Controllers == 1..Len(streams)

Entries == 1..Len(entries)

LiveEntries == {e \in Entries : ~entries[e].disposed}

NewEntry(panelId) ==
    [key |-> panelId, disposed |-> FALSE,
     sseStreams |-> EmptyMap, sseHeartbeats |-> EmptyMap, outbox |-> <<>>]

\* entry.panel.webview.postMessage, from a handler that owns no stream
Post(es, e, msgs) == [es EXCEPT ![e].outbox = @ \o msgs]

\* entry.panel.webview.postMessage, from the closures of controller c
PostBy(ss, c, msgs) == [ss EXCEPT ![c].posted = @ \o msgs]

IsChunk(m) == m.type = "api:sse:chunk"

RECURSIVE ChunksIn(_)
ChunksIn(ss) ==
    IF ss = <<>> THEN 0 ELSE Len(SelectSeq(Head(ss).posted, IsChunk)) + ChunksIn(Tail(ss))

\* the chunk messages posted so far, over all streams
ChunksPosted == ChunksIn(streams)

RECURSIVE LateTicksIn(_)
LateTicksIn(ss) == IF ss = <<>> THEN 0 ELSE Head(ss).lateTicks + LateTicksIn(Tail(ss))

Events == Len(entries) + Len(requests) + ChunksPosted + LateTicksIn(streams)

MayRaiseEvent == Events < MaxEvents

Init ==
    /\ panels = EmptyMap
    /\ entries = <<>>
    /\ sseCounter = 0
    /\ streams = <<>>
    /\ requests = <<>>
    /\ pendingResponse = 0

----------------------------------------------------------------------------
(* Panel registry *)

ConnectionStatusMessage == [type |-> "connectionStatus"]

_createPanel(panelId) ==
    /\ MayRaiseEvent
    /\ entries' = Append(entries,
                    Post(<<NewEntry(panelId)>>, 1, <<ConnectionStatusMessage>>)[1])
    /\ panels' = MapSet(panels, panelId, Len(entries) + 1)
    /\ UNCHANGED <<sseCounter, streams, requests, pendingResponse>>

createOrShowNewSession ==
    /\ pendingResponse = 0
    /\ \E panelId \in NewPanelIds :
         /\ \A e \in Entries : entries[e].key # panelId
         /\ _createPanel(panelId)

\* an open that creates a panel whether or not the session has one
createOrShowAlwaysCreates(sessionId) ==
    /\ pendingResponse = 0
    /\ IF sessionId = ""
       THEN UNCHANGED vars
       ELSE _createPanel(sessionId)

\* the title and the reveal of an existing panel belong to the editor host
createOrShow(sessionId) ==
    /\ pendingResponse = 0
    /\ IF sessionId = ""
       THEN UNCHANGED vars
       ELSE IF sessionId \in DOMAIN panels
       THEN UNCHANGED vars
       ELSE _createPanel(sessionId)

AbortAll(ss, cs) == [c \in DOMAIN ss |-> IF c \in cs THEN [ss[c] EXCEPT !.aborted = TRUE] ELSE ss[c]]

ClearIntervals(ss, ts) == [c \in DOMAIN ss |-> IF c \in ts THEN [ss[c] EXCEPT !.timer = FALSE] ELSE ss[c]]

_disposePanel(sessionId) ==
    IF sessionId \notin DOMAIN panels
    THEN UNCHANGED <<panels, entries, streams>>
    ELSE LET e == panels[sessionId]
         IN /\ streams' = ClearIntervals(AbortAll(streams, MapValues(entries[e].sseStreams)),
                                         MapValues(entries[e].sseHeartbeats))
            /\ entries' = [entries EXCEPT ![e].sseStreams = EmptyMap,
                                          ![e].sseHeartbeats = EmptyMap,
                                          ![e].disposed = TRUE]
            /\ panels' = MapDelete(panels, sessionId)

\* panel.onDidDispose
PanelDisposed(e) ==
    /\ pendingResponse = 0
    /\ ~entries[e].disposed
    /\ _disposePanel(entries[e].key)
    /\ UNCHANGED <<sseCounter, requests, pendingResponse>>

----------------------------------------------------------------------------
(* api:sse:start *)

FixedSseHeaders ==
    ("Accept" :> "text/event-stream") @@ ("Cache-Control" :> "no-cache")
        @@ ("Connection" :> "keep-alive")

\* { ...fixed, ...(extra || {}) }: a later key overrides an earlier one
_buildSseHeaders(extra) == extra @@ FixedSseHeaders

\* a normalization that keeps the surrounding white space of the path
NormalizedPathUntrimmed(path) ==
    IF path.isString /\ Len(Trim(path.text)) > 0 THEN path.text ELSE EventPath

NormalizedPath(path) ==
    IF path.isString /\ Len(Trim(path.text)) > 0 THEN Trim(path.text) ELSE EventPath

ShouldInjectActivity(normalizedPath) ==
    normalizedPath = EventPath \/ normalizedPath = GlobalEventPath

StartResponse(id, status, headers, streamId) ==
    [id |-> id, type |-> "api:sse:start", success |-> TRUE,
     data |-> [status |-> status, headers |-> headers, streamId |-> streamId]]

StartFailure(id, status, headers, error) ==
    [id |-> id, type |-> "api:sse:start", success |-> TRUE,
     data |-> [status |-> status, headers |-> headers, streamId |-> NullStreamId,
               error |-> error]]

\* a start handler that never looks at the API base URL
ApiUrlMissingNever(hasApiUrl) == FALSE

\* !apiBaseUrl
ApiUrlMissing(hasApiUrl) == ~hasApiUrl

\* new URL(normalizedPath.replace(/^\/+/, ''), base) returns
UrlConstructs(normalizedPath) == normalizedPath # MalformedUrlPath

\* the catch around the two fetches
BadGatewayResponse(id, messageText) ==
    StartFailure(id, StatusBadGateway, JsonHeaders, messageText)

\* this._collectHeaders(response.headers)
_collectHeaders(headers) == headers

\* a failure response that reports every upstream failure as a bad gateway
UpstreamFailureAsBadGateway(id, response) ==
    StartFailure(id, StatusBadGateway, JsonHeaders, <<"SSE failed: ", response.status>>)

\* !response.ok || !responseBody
UpstreamFailureResponse(id, response) ==
    StartFailure(id, response.status, _collectHeaders(response.headers),
                 <<"SSE failed: ", response.status>>)

NewStream(streamId, e, id, payload, normalizedPath, requestHeaders) ==
    [id |-> streamId, owner |-> e, req |-> id, payload |-> payload, path |-> normalizedPath,
     inject |-> ShouldInjectActivity(normalizedPath), headers |-> requestHeaders,
     wrap |-> FALSE, pc |-> "fetch", aborted |-> FALSE, timer |-> FALSE,
     sseBuffer |-> <<>>, received |-> <<>>, blocks |-> <<>>, emitted |-> <<>>,
     lateTicks |-> 0, now |-> 0, resumed |-> FALSE,
     fetched |-> <<[url |-> normalizedPath, headers |-> requestHeaders]>>,
     answers |-> <<>>, settled |-> [kind |-> "none"], posted |-> <<>>]

\* the handler has returned: its message is no longer referenced
NoPayload == [path |-> [isString |-> FALSE, text |-> <<>>], headers |-> EmptyMap]

HandlerReturns(ss, c, response) ==
    [PostBy(ss, c, <<response>>) EXCEPT ![c].payload = NoPayload]

\* a counter that starts again for every start request
NextCounterRestarts(counter) == 1

\* ++this._sseCounter
NextCounter(counter) == counter + 1

\* onDidReceiveMessage, api:sse:start, up to the first fetch
ReceiveStart(e, path, headers, hasApiUrl) ==
    /\ pendingResponse = 0
    /\ ~entries[e].disposed
    /\ MayRaiseEvent
    /\ ApiUrlMissing(hasApiUrl) \/ sseCounter < MaxStreams
    /\ requests' = Append(requests, [type |-> "api:sse:start", entry |-> e,
                                     hasApiUrl |-> hasApiUrl])
    /\ LET id == Len(requests) + 1
       IN IF ApiUrlMissing(hasApiUrl)
          THEN /\ entries' = Post(entries, e,
                               <<StartResponse(id, StatusUnavailable, JsonHeaders, NullStreamId)>>)
               /\ UNCHANGED <<panels, sseCounter, streams, pendingResponse>>
          ELSE /\ sseCounter' = NextCounter(sseCounter)
               /\ streams' =
                     IF UrlConstructs(NormalizedPath(path))
                     THEN Append(streams,
                                 NewStream(NextCounter(sseCounter), e, id,
                                           [path |-> path, headers |-> headers],
                                           NormalizedPath(path), _buildSseHeaders(headers)))
                     ELSE \* the handler's promise rejects: nothing is posted
                          Append(streams,
                                 [NewStream(NextCounter(sseCounter), e, id, NoPayload,
                                            NormalizedPath(path), _buildSseHeaders(headers))
                                     EXCEPT !.pc = "threw", !.fetched = <<>>])
               /\ UNCHANGED <<panels, entries, pendingResponse>>

\* entry.sseStreams.set, setInterval, entry.sseHeartbeats.set
RegisterStream(es, c) ==
    LET st == streams[c]
        e == st.owner
        withStream == [es EXCEPT ![e].sseStreams = MapSet(@, st.id, c)]
    IN IF st.inject
       THEN [withStream EXCEPT ![e].sseHeartbeats = MapSet(@, st.id, c)]
       ELSE withStream

\* a fallback that retries whatever path was requested
ShouldFallBackOnAnyPath(st, good) == ~good /\ Len(st.fetched) = 1

\* (!response.ok || !response.body) && normalizedPath === '/global/event', first fetch only
ShouldFallBack(st, good) ==
    ~good /\ st.path = GlobalEventPath /\ Len(st.fetched) = 1

\* a fetch of _startSseProxy settles, and the handler runs up to its return
FetchSettles(c, outcome) ==
    /\ pendingResponse = 0
    /\ streams[c].pc = "fetch"
    /\ LET st == streams[c]
           e == st.owner
       IN IF outcome.kind = "throw"
          THEN /\ streams' = HandlerReturns([streams EXCEPT ![c].pc = "failed",
                                                             ![c].answers = Append(@, outcome),
                                                             ![c].settled = outcome], c,
                                 BadGatewayResponse(st.req, FetchFailureMessage))
               /\ UNCHANGED <<panels, entries, sseCounter, requests, pendingResponse>>
          ELSE LET response == outcome.response
                   good == ResponseOk(response) /\ response.hasBody
               IN IF ShouldFallBack(st, good)
                  THEN /\ streams' = [streams EXCEPT
                                        ![c].answers = Append(@, outcome),
                                        ![c].fetched =
                                            Append(@, [url |-> EventPath, headers |-> st.headers])]
                       /\ UNCHANGED <<panels, entries, sseCounter, requests, pendingResponse>>
                  ELSE IF ~good
                  THEN /\ streams' = HandlerReturns([streams EXCEPT ![c].pc = "failed",
                                                                     ![c].answers = Append(@, outcome),
                                                                     ![c].settled = outcome], c,
                                         UpstreamFailureResponse(st.req, response))
                       /\ UNCHANGED <<panels, entries, sseCounter, requests, pendingResponse>>
                  ELSE /\ streams' = [streams EXCEPT ![c].pc = "reading",
                                                     ![c].wrap = (Len(st.fetched) = 2),
                                                     ![c].timer = st.inject,
                                                     ![c].answers = Append(@, outcome),
                                                     ![c].settled = outcome]
                       /\ entries' = RegisterStream(entries, c)
                       /\ pendingResponse' = c
                       /\ UNCHANGED <<panels, sseCounter, requests>>

\* the handler's await of _startSseProxy resumes: postMessage(response)
PostStartResponse(c) ==
    /\ pendingResponse = c
    /\ streams' = HandlerReturns(streams, c,
                    StartResponse(streams[c].req, streams[c].settled.response.status,
                                  _collectHeaders(streams[c].settled.response.headers),
                                  streams[c].id))
    /\ pendingResponse' = 0
    /\ UNCHANGED <<panels, entries, sseCounter, requests>>

----------------------------------------------------------------------------
(* api:sse:stop *)

StopResponse(id) ==
    [id |-> id, type |-> "api:sse:stop", success |-> TRUE, data |-> [stopped |-> TRUE]]

\* the stream ids a panel can put in a stop payload
StreamIdInputs == {NullStreamId, EmptyStreamId} \cup (1..(sseCounter + 1))

\* a stop that cancels every stream of the panel, whatever id it is given
StopStateAbortsAll(es, ss, e, streamId) ==
    [streams |-> ClearIntervals(AbortAll(ss, MapValues(es[e].sseStreams)),
                                MapValues(es[e].sseHeartbeats)),
     entries |-> [es EXCEPT ![e].sseStreams = EmptyMap, ![e].sseHeartbeats = EmptyMap]]

\* a stop that aborts and forgets the controller but leaves the timer
StopStateControllerOnly(es, ss, e, streamId) ==
    IF streamId # NullStreamId /\ streamId # EmptyStreamId
          /\ streamId \in DOMAIN es[e].sseStreams
    THEN [streams |-> AbortAll(ss, {es[e].sseStreams[streamId]}),
          entries |-> [es EXCEPT ![e].sseStreams = MapDelete(@, streamId)]]
    ELSE [streams |-> ss, entries |-> es]

\* a stop that looks the stream id up in the maps of every panel
StopStateAnyPanel(es, ss, e, streamId) ==
    LET holders == {f \in 1..Len(es) : streamId \in DOMAIN es[f].sseStreams}
    IN IF holders = {} THEN [streams |-> ss, entries |-> es]
       ELSE LET f == CHOOSE g \in holders : TRUE
                c == es[f].sseStreams[streamId]
            IN [streams |-> ClearIntervals(AbortAll(ss, {c}), {c}),
                entries |-> [es EXCEPT ![f].sseStreams = MapDelete(@, streamId),
                                       ![f].sseHeartbeats = MapDelete(@, streamId)]]

\* what _stopSseProxy does to the panel's maps, the controller and the timer
StopState(es, ss, e, streamId) ==
    IF streamId # NullStreamId /\ streamId # EmptyStreamId
    THEN LET entry == es[e]
             hasController == streamId \in DOMAIN entry.sseStreams
             hasHeartbeat == streamId \in DOMAIN entry.sseHeartbeats
             aborted == IF hasController
                        THEN AbortAll(ss, {entry.sseStreams[streamId]})
                        ELSE ss
         IN [streams |-> IF hasHeartbeat
                         THEN ClearIntervals(aborted, {entry.sseHeartbeats[streamId]})
                         ELSE aborted,
             entries |-> [es EXCEPT
                            ![e].sseStreams = IF hasController THEN MapDelete(@, streamId) ELSE @,
                            ![e].sseHeartbeats = IF hasHeartbeat THEN MapDelete(@, streamId) ELSE @]]
    ELSE [streams |-> ss, entries |-> es]

_stopSseProxy(id, e, streamId) ==
    LET after == StopState(entries, streams, e, streamId)
    IN /\ streams' = after.streams
       /\ entries' = Post(after.entries, e, <<StopResponse(id)>>)

\* onDidReceiveMessage, api:sse:stop
ReceiveStop(e, streamId) ==
    /\ pendingResponse = 0
    /\ ~entries[e].disposed
    /\ MayRaiseEvent
    /\ requests' = Append(requests, [type |-> "api:sse:stop", entry |-> e,
                                     streamId |-> streamId])
    /\ _stopSseProxy(Len(requests) + 1, e, streamId)
    /\ UNCHANGED <<panels, sseCounter, pendingResponse>>

----------------------------------------------------------------------------
(* The relay task of a stream and its heartbeat timer *)

ChunkMessage(streamId, chunk) == [type |-> "api:sse:chunk", streamId |-> streamId, chunk |-> chunk]

EndMessage(streamId) == [type |-> "api:sse:end", streamId |-> streamId]

EndErrorMessage(streamId, error) == [type |-> "api:sse:end", streamId |-> streamId, error |-> error]

AllButLast(ss) == SubSeq(ss, 1, Len(ss) - 1)

\* wrapAsGlobal ? wrapSseBlocksAsGlobal(blocks, fallbackDirectory) : blocks
RoutedBlocks(st, blocks) ==
    IF st.wrap THEN wrapSseBlocksAsGlobal(blocks, FallbackDirectory) ELSE blocks

\* shouldInjectActivity ? expandSseBlocksWithActivity(routedBlocks) : routedBlocks
OutboundBlocks(st, blocks) ==
    LET routedBlocks == RoutedBlocks(st, blocks)
    IN IF st.inject THEN expandSseBlocksWithActivity(routedBlocks) ELSE routedBlocks

\* the chunk posted for the complete blocks of one read
OutboundChunk(st, blocks) == JoinBlocks(OutboundBlocks(st, blocks))

\* the blocks posted for a non-empty residual buffer when the read loop is left
FlushBlocks(st) ==
    IF st.inject
    THEN expandSseBlocksWithActivity(RoutedBlocks(st, <<st.sseBuffer>>))
    ELSE <<st.sseBuffer>>

\* a flush that posts the residual buffer as it is on every stream
FlushChunkRaw(st) == st.sseBuffer

\* the chunk posted for a non-empty residual buffer when the read loop is left
FlushChunk(st) ==
    IF st.inject THEN JoinBlocks(FlushBlocks(st)) ELSE st.sseBuffer

\* a finally block that removes the controller and forgets the timer
RelayCleanupLeavesTimer(es, ss, c) ==
    [entries |-> [es EXCEPT ![ss[c].owner].sseStreams = MapDelete(@, ss[c].id)],
     streams |-> ss]

\* the finally block of the relay task
RelayCleanup(es, ss, c) ==
    LET st == ss[c]
        e == st.owner
        hasHeartbeat == st.id \in DOMAIN es[e].sseHeartbeats
    IN [entries |-> [es EXCEPT ![e].sseStreams = MapDelete(@, st.id),
                               ![e].sseHeartbeats = IF hasHeartbeat THEN MapDelete(@, st.id) ELSE @],
        streams |-> IF hasHeartbeat
                    THEN ClearIntervals(ss, {es[e].sseHeartbeats[st.id]})
                    ELSE ss]

\* the read loop is left by break: flush, api:sse:end, finally
RelayEnds(c) ==
    LET st == streams[c]
        flush == IF st.sseBuffer # <<>> THEN <<ChunkMessage(st.id, FlushChunk(st))>> ELSE <<>>
        flushed == IF st.sseBuffer # <<>> THEN FlushBlocks(st) ELSE <<>>
        after == RelayCleanup(entries,
                              PostBy([streams EXCEPT ![c].pc = "ended",
                                                     ![c].emitted = @ \o flushed], c,
                                     flush \o <<EndMessage(st.id)>>), c)
    IN /\ entries' = after.entries
       /\ streams' = after.streams

\* a catch block that reports the failure whether or not the stream was cancelled
RelayFailsReportsAlways(c) ==
    LET st == streams[c]
        after == RelayCleanup(entries,
                              PostBy([streams EXCEPT ![c].pc = "errored"], c,
                                     <<EndErrorMessage(st.id, ReadFailureMessage)>>), c)
    IN /\ entries' = after.entries
       /\ streams' = after.streams

\* reader.read() rejects: catch, finally
RelayFails(c) ==
    LET st == streams[c]
        report == IF ~st.aborted THEN <<EndErrorMessage(st.id, ReadFailureMessage)>> ELSE <<>>
        after == RelayCleanup(entries,
                              PostBy([streams EXCEPT ![c].pc = "errored"], c, report), c)
    IN /\ entries' = after.entries
       /\ streams' = after.streams

\* the read's continuation is a microtask: it runs before the start response is
\* posted only when the first read was already settled
ReadMayResume(c) ==
    /\ streams[c].pc = "reading"
    /\ \/ pendingResponse = 0
       \/ pendingResponse = c /\ ~streams[c].resumed

\* reader.read() resolves with { done: false, value }
ReadBytes(c, value) ==
    /\ ReadMayResume(c)
    /\ MayRaiseEvent
    /\ LET st == streams[c]
       IN IF st.aborted
          THEN RelayEnds(c)
          ELSE IF value = <<>>
          THEN UNCHANGED <<entries, streams>>
          ELSE LET buffered == st.sseBuffer \o (IF st.inject THEN NormalizeCrLf(value) ELSE value)
                   parts == Split(buffered, BlockSeparator)
                   blocks == AllButLast(parts)
                   read == [streams EXCEPT ![c].resumed = TRUE,
                                           ![c].received = @ \o value,
                                           ![c].blocks = @ \o blocks,
                                           ![c].emitted = @ \o OutboundBlocks(st, blocks),
                                           ![c].sseBuffer = parts[Len(parts)]]
               IN /\ streams' = IF blocks # <<>>
                                THEN PostBy(read, c,
                                            <<ChunkMessage(st.id, OutboundChunk(st, blocks))>>)
                                ELSE read
                  /\ entries' = entries
    /\ UNCHANGED <<panels, sseCounter, requests, pendingResponse>>

\* reader.read() resolves with { done: true }
ReadDone(c) ==
    /\ ReadMayResume(c)
    /\ RelayEnds(c)
    /\ UNCHANGED <<panels, sseCounter, requests, pendingResponse>>

\* reader.read() rejects
ReadError(c) ==
    /\ ReadMayResume(c)
    /\ RelayFails(c)
    /\ UNCHANGED <<panels, sseCounter, requests, pendingResponse>>

\* a heartbeat block posted without its terminator
HeartbeatChunkUnterminated == buildHeartbeatEventBlock

\* `${buildHeartbeatEventBlock()}\n\n`
HeartbeatChunk == buildHeartbeatEventBlock \o BlockSeparator

\* a callback that does not test the abort signal
HeartbeatCallbackUnguarded(c) ==
    /\ streams' = PostBy([streams EXCEPT ![c].lateTicks =
                             IF streams[c].aborted THEN @ + 1 ELSE @], c,
                         <<ChunkMessage(streams[c].id, HeartbeatChunk)>>)
    /\ UNCHANGED <<panels, entries, sseCounter, requests, pendingResponse>>

\* the body of the setInterval callback; lateTicks counts its runs on a
\* cancelled stream, which leave the program's state as it is
HeartbeatCallback(c) ==
    /\ streams' = IF streams[c].aborted
                  THEN [streams EXCEPT ![c].lateTicks = @ + 1]
                  ELSE PostBy(streams, c, <<ChunkMessage(streams[c].id, HeartbeatChunk)>>)
    /\ UNCHANGED <<panels, entries, sseCounter, requests, pendingResponse>>

\* the timer armed by setInterval fires
HeartbeatTick(c) ==
    /\ pendingResponse = 0
    /\ streams[c].timer
    /\ MayRaiseEvent
    /\ HeartbeatCallback(c)

----------------------------------------------------------------------------

Next ==
    \/ createOrShowNewSession
    \/ \E sessionId \in SessionIdInputs : createOrShow(sessionId)
    \/ \E e \in Entries : PanelDisposed(e)
    \/ \E e \in Entries, path \in PathInputs, headers \in HeaderInputs, hasApiUrl \in BOOLEAN :
         ReceiveStart(e, path, headers, hasApiUrl)
    \/ \E c \in Controllers, outcome \in FetchOutcomes : FetchSettles(c, outcome)
    \/ \E c \in Controllers : PostStartResponse(c)
    \/ \E e \in Entries, streamId \in StreamIdInputs : ReceiveStop(e, streamId)
    \/ \E c \in Controllers, value \in ReadValues : ReadBytes(c, value)
    \/ \E c \in Controllers : ReadDone(c)
    \/ \E c \in Controllers : ReadError(c)
    \/ \E c \in Controllers : HeartbeatTick(c)

Spec == Init /\ [][Next]_vars

----------------------------------------------------------------------------
(* The relay of one stream, over upstream bodies delivered in arbitrary reads *)

\* the tokens of one upstream body, over all the reads of a stream
MaxRelayBody == 8

\* an upstream event that the activity deriver turns into a busy activity
BusyStatus ==
    JObj([type |-> JStr("session.status"),
          properties |-> JObj([sessionID |-> JStr("s1"),
                               status |-> JObj([type |-> JStr("busy")])])])

StatusBlock == <<DataPrefix, SP>> \o JsonStringify(BusyStatus)

\* what one reader.read() delivers: a character, a line end or a half of
\* one, a whole event block, two blocks at once
RelayReadValues ==
    {<<Ch("a")>>, <<NL>>, <<CR>>, <<CR, NL>>,
     StatusBlock \o <<NL, NL>>,
     StatusBlock \o <<NL, NL, Ch("a"), NL, NL>>}

RelayReads(c) ==
    {value \in RelayReadValues : Len(streams[c].received) + Len(value) <= MaxRelayBody}

\* the streams whose relay is followed: /event (activity tracking), /session
\* (plain) and /global/event answered 404 and retried on /event (wrapped)
RelayModes ==
    {[path |-> EventPath, wrap |-> FALSE],
     [path |-> <<Ch("/session")>>, wrap |-> FALSE],
     [path |-> GlobalEventPath, wrap |-> TRUE]}

\* the state after createOrShow("s1"), an api:sse:start for the path of the
\* mode, its fetch (and fallback) answered, and the start response posted
RelayInit ==
    \E mode \in RelayModes :
        LET headers == CHOOSE h \in HeaderInputs : TRUE
            ok == CHOOSE o \in FetchOutcomes :
                      o.kind = "response" /\ ResponseOk(o.response) /\ o.response.hasBody
            notFound == CHOOSE o \in FetchOutcomes :
                            o.kind = "response" /\ ~ResponseOk(o.response)
            st == NewStream(1, 1, 1, NoPayload, mode.path, _buildSseHeaders(headers))
            entry == [NewEntry("s1") EXCEPT
                        !.outbox = <<ConnectionStatusMessage>>,
                        !.sseStreams = MapSet(EmptyMap, 1, 1),
                        !.sseHeartbeats = IF st.inject THEN MapSet(EmptyMap, 1, 1)
                                          ELSE EmptyMap]
        IN /\ panels = MapSet(EmptyMap, "s1", 1)
           /\ entries = <<entry>>
           /\ sseCounter = 1
           /\ requests = <<[type |-> "api:sse:start", entry |-> 1, hasApiUrl |-> TRUE]>>
           /\ pendingResponse = 0
           /\ streams =
                 <<[st EXCEPT
                      !.pc = "reading",
                      !.wrap = mode.wrap,
                      !.timer = st.inject,
                      !.fetched = IF mode.wrap
                                  THEN Append(@, [url |-> EventPath, headers |-> st.headers])
                                  ELSE @,
                      !.answers = IF mode.wrap THEN <<notFound, ok>> ELSE <<ok>>,
                      !.settled = ok,
                      !.posted = <<StartResponse(1, ok.response.status,
                                                 _collectHeaders(ok.response.headers), 1)>>]>>

RelayNext ==
    \/ \E c \in Controllers : \E value \in RelayReads(c) : ReadBytes(c, value)
    \/ \E c \in Controllers : ReadDone(c)
    \/ \E c \in Controllers : ReadError(c)
    \/ \E c \in Controllers : HeartbeatTick(c)

RelaySpec == RelayInit /\ [][RelayNext]_vars

----------------------------------------------------------------------------
(* Properties *)

IsEnd(m) == m.type = "api:sse:end"

IsTraffic(m) == IsChunk(m) \/ IsEnd(m)

\* the chunk and end messages posted for the stream of controller c, in order
StreamTraffic(c) == SelectSeq(streams[c].posted, IsTraffic)

StreamEnds(c) == SelectSeq(streams[c].posted, IsEnd)

OwnerDisposed(c) == entries[streams[c].owner].disposed

\* C1: after a panel is disposed none of its streams keeps an upstream
\* connection, awaited or being read, whose cancellation handle is not
\* aborted, and none keeps an armed heartbeat timer.
C1_NoResourceOutlivesPanel ==
    \A c \in Controllers :
        OwnerDisposed(c) =>
            /\ ~streams[c].timer
            /\ streams[c].pc \in {"fetch", "reading"} => streams[c].aborted

\* C2: once the owning panel is disposed, no step posts a chunk or an end
\* message for any of its streams.
C2_NoTrafficAfterDisposal ==
    [][\A c \in Controllers :
          OwnerDisposed(c) => StreamTraffic(c)' = StreamTraffic(c)]_vars

\* C3: a stream posts at most one end message; a stream that was never
\* cancelled and has left its read loop, normally or by a read failure, has
\* posted exactly one (with the error only after a failure); a read failure
\* after cancellation posts none, and nothing is posted before the loop is left.
C3_ExactlyOneEnd ==
    \A c \in Controllers :
        LET st == streams[c]
            ends == StreamEnds(c)
        IN /\ Len(ends) <= 1
           /\ st.pc \in {"ended", "errored"} /\ ~st.aborted =>
                 /\ Len(ends) = 1
                 /\ ends[1].streamId = st.id
                 /\ ("error" \in DOMAIN ends[1]) <=> (st.pc = "errored")
           /\ st.pc = "errored" /\ st.aborted => ends = <<>>
           /\ st.pc \in {"threw", "fetch", "failed", "reading"} => ends = <<>>

\* one stream ended normally with its single end message, another failed
\* after its cancellation and stayed silent
C3_Witness ==
    \E c, d \in Controllers :
        /\ streams[c].pc = "ended" /\ ~streams[c].aborted /\ Len(StreamEnds(c)) = 1
        /\ streams[d].pc = "errored" /\ streams[d].aborted /\ StreamEnds(d) = <<>>

\* C4: once a stream is cancelled by a stop request (its panel still open),
\* no step posts a data chunk, a flush chunk or an end message for it.
C4_NoTrafficAfterStop ==
    [][\A c \in Controllers :
          streams[c].aborted /\ ~OwnerDisposed(c) =>
              StreamTraffic(c)' = StreamTraffic(c)]_vars

\* C7: every chunk or end message of a stream is posted after the start
\* response that carries its stream id.
C7_ResponseBeforeTraffic ==
    \A c \in Controllers :
        StreamTraffic(c) # <<>> =>
            /\ streams[c].posted[1].type = "api:sse:start"
            /\ streams[c].posted[1].data.streamId = streams[c].id

RECURSIVE Outboxes(_)
Outboxes(es) == IF es = <<>> THEN <<>> ELSE Head(es).outbox \o Outboxes(Tail(es))

RECURSIVE PostedBy(_, _)
PostedBy(ss, owners) ==
    IF ss = <<>> THEN <<>>
    ELSE (IF Head(ss).owner \in owners THEN Head(ss).posted ELSE <<>>)
             \o PostedBy(Tail(ss), owners)

\* every message posted to the panel of entry e (the order between the
\* handlers and the streams is not recorded)
PostedTo(e) == entries[e].outbox \o PostedBy(streams, {e})

AllPosted == Outboxes(entries) \o PostedBy(streams, Entries)

IsResponse(m) == m.type \in {"api:sse:start", "api:sse:stop"}

AnswersIn(msgs, r) ==
    LET IsAnswer(m) == IsResponse(m) /\ m.id = r
    IN SelectSeq(msgs, IsAnswer)

\* the handler of request r has not yet reached its postMessage
HandlerPending(r) ==
    \E c \in Controllers :
        streams[c].req = r /\ (streams[c].pc = "fetch" \/ pendingResponse = c)

\* C5: every start or stop request is answered by exactly one response,
\* posted to the requesting panel once the handler completes, with the
\* request's id and type and success = true.
C5_ExactlyOneResponse ==
    \A r \in DOMAIN requests :
        LET answers == AnswersIn(AllPosted, r)
        IN IF HandlerPending(r)
           THEN answers = <<>>
           ELSE /\ Len(answers) = 1
                /\ AnswersIn(PostedTo(requests[r].entry), r) = answers
                /\ answers[1].type = requests[r].type
                /\ answers[1].success = TRUE

\* C6: every stop response carries { stopped: true } with success = true;
\* stopping the same id twice leaves what stopping it once leaves; an id that
\* is missing, empty, unknown or already stopped leaves the panel's stream
\* and timer sets, the controllers and the timers unchanged.
C6_StopIdempotent ==
    /\ \A i \in 1..Len(AllPosted) :
          AllPosted[i].type = "api:sse:stop" =>
              AllPosted[i].success = TRUE /\ AllPosted[i].data = [stopped |-> TRUE]
    /\ \A e \in LiveEntries, streamId \in StreamIdInputs :
          LET once == StopState(entries, streams, e, streamId)
              twice == StopState(once.entries, once.streams, e, streamId)
              matched == streamId \in DOMAIN entries[e].sseStreams
                             \cup DOMAIN entries[e].sseHeartbeats
          IN /\ twice = once
             /\ ~matched => once = [streams |-> streams, entries |-> entries]

\* a stream cancelled by a stop on a panel that has answered two stops
C6_Witness ==
    \E c \in Controllers :
        /\ streams[c].aborted /\ ~OwnerDisposed(c) /\ streams[c].pc = "reading"
        /\ LET IsStop(m) == m.type = "api:sse:stop"
           IN Len(SelectSeq(entries[streams[c].owner].outbox, IsStop)) = 2

\* C8: when the start handler is about to return success, the stream id is
\* registered in the panel's stream set, and it has a heartbeat timer exactly
\* when the requested path, trimmed and defaulted to /event, is /event or
\* /global/event.
C8_RegisteredOnSuccess ==
    \A c \in Controllers :
        pendingResponse = c /\ streams[c].pc = "reading" /\ ~streams[c].resumed =>
            LET st == streams[c]
                entry == entries[st.owner]
                requested == st.payload.path
                eventPath == \/ ~requested.isString
                             \/ Trim(requested.text) \in {<<>>, EventPath, GlobalEventPath}
            IN /\ st.id \in DOMAIN entry.sseStreams
               /\ entry.sseStreams[st.id] = c
               /\ (st.id \in DOMAIN entry.sseHeartbeats) <=> eventPath
               /\ st.timer <=> eventPath

\* a stream of " /event " is being registered with its timer while a stream
\* of /session stays registered without one
C8_Witness ==
    \E c, d \in Controllers :
        /\ pendingResponse = c /\ streams[c].pc = "reading" /\ streams[c].timer
        /\ streams[c].payload.path.text = <<SP, Ch("/event"), SP>>
        /\ streams[d].path = <<Ch("/session")>> /\ ~streams[d].timer
        /\ streams[d].id \in DOMAIN entries[streams[d].owner].sseStreams

\* C9: a start request received while no API base URL is available is
\* answered at once with success = true, status 503 and a null stream id; no
\* controller is created for it, so no upstream request is made, and every
\* registered stream belongs to a request that had a base URL.
C9_NoUrlAnswers503 ==
    /\ \A r \in DOMAIN requests :
          requests[r].type = "api:sse:start" /\ ~requests[r].hasApiUrl =>
              /\ AnswersIn(entries[requests[r].entry].outbox, r) =
                     <<[id |-> r, type |-> "api:sse:start", success |-> TRUE,
                        data |-> [status |-> 503,
                                  headers |-> ("content-type" :> "application/json"),
                                  streamId |-> NullStreamId]]>>
              /\ \A c \in Controllers : streams[c].req # r
    /\ \A e \in Entries :
          \A id \in DOMAIN entries[e].sseStreams \cup DOMAIN entries[e].sseHeartbeats :
              \E c \in Controllers : streams[c].id = id /\ requests[streams[c].req].hasApiUrl

\* a start without base URL has been answered on a panel that also has a
\* registered stream
C9_Witness ==
    \E r \in DOMAIN requests :
        /\ requests[r].type = "api:sse:start" /\ ~requests[r].hasApiUrl
        /\ AnswersIn(entries[requests[r].entry].outbox, r) # <<>>
        /\ entries[requests[r].entry].sseStreams # EmptyMap

\* C10: a start whose upstream connection failed is answered with
\* success = true, a null stream id and an error, and registers nothing:
\* status 502 and the failure's message when the connection threw, the
\* upstream's own status and headers when it answered not-OK or without a body.
C10_UpstreamFailure ==
    \A c \in Controllers :
        streams[c].pc = "failed" =>
            LET st == streams[c]
                m == st.posted[1]
            IN /\ Len(st.posted) = 1
               /\ m.id = st.req /\ m.type = "api:sse:start" /\ m.success = TRUE
               /\ m.data.streamId = NullStreamId
               /\ "error" \in DOMAIN m.data
               /\ st.settled.kind = "throw" =>
                     /\ m.data.status = 502
                     /\ m.data.headers = ("content-type" :> "application/json")
                     /\ m.data.error = FetchFailureMessage
               /\ st.settled.kind = "response" =>
                     /\ m.data.status = st.settled.response.status
                     /\ m.data.headers = st.settled.response.headers
                     /\ m.data.error = <<"SSE failed: ", st.settled.response.status>>
               /\ ~st.timer /\ ~st.aborted
               /\ \A e \in Entries :
                     st.id \notin DOMAIN entries[e].sseStreams
                                      \cup DOMAIN entries[e].sseHeartbeats

\* one start failed by a thrown fetch, another by a 200 answer without a body
C10_Witness ==
    \E c, d \in Controllers :
        /\ streams[c].pc = "failed" /\ streams[c].settled.kind = "throw"
        /\ streams[d].pc = "failed" /\ streams[d].settled.kind = "response"
        /\ streams[d].settled.response.status = 200

\* C11: a start issues one upstream request for the normalized path, and one
\* more, to /event with the same headers, exactly when the path is
\* /global/event and the first answer is a response that is not OK or has no
\* body; the stream is wrapped exactly when that second answer is an OK
\* response with a body; once the start has failed or the stream is being
\* read or has ended, every request is answered and no further one is issued.
C11_FallbackOnlyRetry ==
    \A c \in Controllers :
        LET st == streams[c]
            n == Len(st.fetched)
            Good(a) == /\ a.kind = "response"
                       /\ a.response.status \in 200..299
                       /\ a.response.hasBody
        IN /\ n <= 2
           /\ (st.pc = "threw") <=> (n = 0)
           /\ n >= 1 => st.fetched[1].url = st.path
           /\ Len(st.answers) = IF st.pc = "fetch" THEN n - 1 ELSE n
           /\ (n = 2) <=> /\ st.path = <<Ch("/global/event")>>
                          /\ Len(st.answers) >= 1
                          /\ st.answers[1].kind = "response"
                          /\ ~Good(st.answers[1])
           /\ n = 2 => st.fetched[2] = [url |-> <<Ch("/event")>>,
                                        headers |-> st.fetched[1].headers]
           /\ st.wrap <=> (Len(st.answers) = 2 /\ Good(st.answers[2]))

\* a /global/event stream answered 404, retried on /event and wrapped, is
\* being read
C11_Witness ==
    \E c \in Controllers :
        /\ streams[c].wrap /\ streams[c].pc = "reading"
        /\ Len(streams[c].fetched) = 2
        /\ streams[c].answers[1].response.status = 404

IsSuccessfulStart(m) == m.type = "api:sse:start" /\ m.data.streamId # NullStreamId

\* the responses of the successful starts, over all panels
SuccessfulStarts == SelectSeq(AllPosted, IsSuccessfulStart)

\* C12: no step decreases the stream counter, and after every step no two
\* streams have the same id and no two successful start responses, on
\* whatever panels, carry the same stream id.
C12_StreamIdsUnique ==
    [][/\ sseCounter' >= sseCounter
       /\ \A c, d \in DOMAIN streams' :
             c # d => streams'[c].id # streams'[d].id
       /\ \A i, j \in DOMAIN SuccessfulStarts' :
             i # j => SuccessfulStarts'[i].data.streamId # SuccessfulStarts'[j].data.streamId]_vars

\* two panels have each been told the id of a stream of their own
C12_Witness ==
    \E c, d \in Controllers :
        /\ streams[c].owner # streams[d].owner
        /\ \E i, j \in DOMAIN SuccessfulStarts :
              /\ SuccessfulStarts[i].data.streamId = streams[c].id
              /\ SuccessfulStarts[j].data.streamId = streams[d].id

IsActivityBlock(block) ==
    Get(parseSseDataPayload(block), "type") = JStr("openchamber:session-activity")

IsUpstreamBlock(block) == ~IsActivityBlock(block)

\* a chunk message that is not a heartbeat
IsDataChunk(m) == IsChunk(m) /\ m.chunk # HeartbeatChunk

DataChunks(c) == SelectSeq(streams[c].posted, IsDataChunk)

\* the text of a sequence of at most one text
Concat2(texts) == IF texts = <<>> THEN <<>> ELSE texts[1]

RECURSIVE ConcatChunks(_)
ConcatChunks(msgs) ==
    IF msgs = <<>> THEN <<>> ELSE Head(msgs).chunk \o ConcatChunks(Tail(msgs))

\* the text of all the data chunks posted for the stream of controller c
DataText(c) == ConcatChunks(DataChunks(c))

\* the residual buffer that the end of the stream has flushed, if any
FlushedResidual(c) ==
    IF streams[c].pc = "ended" /\ streams[c].sseBuffer # <<>>
    THEN <<streams[c].sseBuffer>> ELSE <<>>

\* C13: the data chunks of a stream are, in order, the blocks the relay
\* emitted; leaving the activity blocks out, these are the blocks split off
\* the upstream body (wrapped on a wrapped stream) in the order they were
\* split off; every activity block directly follows a block that is none and
\* is the block derived from that one; no data chunk begins with an activity
\* block, so an activity block is in the chunk of its source.
C13_BlocksInOrder ==
    \A c \in Controllers :
        LET st == streams[c]
            E == st.emitted
        IN /\ DataText(c) = IF st.inject
                            THEN JoinBlocks(E)
                            ELSE JoinBlocks(st.blocks) \o Concat2(FlushedResidual(c))
           /\ SelectSeq(E, IsUpstreamBlock) =
                 RoutedBlocks(st, st.blocks \o FlushedResidual(c))
           /\ \A i \in DOMAIN E :
                 IsActivityBlock(E[i]) =>
                     /\ i > 1
                     /\ ~IsActivityBlock(E[i - 1])
                     /\ LET activity == deriveSessionActivity(parseSseDataPayload(E[i - 1]))
                        IN activity # NoActivity /\ E[i] = buildActivityEventBlock(activity)
           /\ \A i \in DOMAIN DataChunks(c) :
                 ~IsActivityBlock(Split(DataChunks(c)[i].chunk, BlockSeparator)[1])

\* a status block, its activity block and a further block have been emitted,
\* in one chunk
C13_Witness ==
    \E c \in Controllers :
        /\ Len(streams[c].emitted) >= 3
        /\ IsActivityBlock(streams[c].emitted[2])
        /\ IsUpstreamBlock(streams[c].emitted[3])
        /\ Len(DataChunks(c)) = 1

\* the chunk the end of the stream owes for a residual buffer: the buffer as
\* one block through wrapping and activity derivation
ResidualThroughPipeline(st) ==
    IF st.inject
    THEN JoinBlocks(expandSseBlocksWithActivity(
             IF st.wrap THEN wrapSseBlocksAsGlobal(<<st.sseBuffer>>, FallbackDirectory)
                        ELSE <<st.sseBuffer>>))
    ELSE st.sseBuffer

\* C14: once the relay has run to completion, the last traffic of the stream
\* is the end message without an error field; a non-empty residual buffer was
\* posted just before it as one chunk, wrapped and expanded like a complete
\* block; and on every stream an end message is followed by no chunk, data or
\* heartbeat.
C14_FlushThenEnd ==
    \A c \in Controllers :
        LET st == streams[c]
            T == StreamTraffic(c)
        IN /\ \A i \in DOMAIN T : IsEnd(T[i]) => i = Len(T)
           /\ st.pc = "ended" =>
                 /\ Len(T) >= 1
                 /\ T[Len(T)] = EndMessage(st.id)
                 /\ st.sseBuffer # <<>> =>
                       /\ Len(T) >= 2
                       /\ T[Len(T) - 1] = ChunkMessage(st.id, ResidualThroughPipeline(st))

\* an activity-tracking stream has ended with a residual buffer, after a
\* heartbeat
C14_Witness ==
    \E c \in Controllers :
        /\ streams[c].pc = "ended"
        /\ streams[c].inject
        /\ streams[c].sseBuffer # <<>>
        /\ \E i \in DOMAIN streams[c].posted :
              streams[c].posted[i] = ChunkMessage(streams[c].id, HeartbeatChunk)

\* parts.join(sep)
RECURSIVE JoinWith(_, _)
JoinWith(parts, sep) ==
    IF parts = <<>> THEN <<>>
    ELSE IF Len(parts) = 1 THEN Head(parts)
    ELSE Head(parts) \o sep \o JoinWith(Tail(parts), sep)

IsSyntheticBlock(block) == IsActivityBlock(block) \/ block = buildHeartbeatEventBlock

IsRelayedBlock(block) == ~IsSyntheticBlock(block)

\* the text of all the chunks posted for the stream of controller c
ChunkText(c) == ConcatChunks(SelectSeq(streams[c].posted, IsChunk))

\* the chunk text without its activity and heartbeat blocks
RelayedText(c) ==
    JoinWith(SelectSeq(Split(ChunkText(c), BlockSeparator), IsRelayedBlock), BlockSeparator)

\* the upstream body as the claim expects it relayed
ExpectedText(c) ==
    IF streams[c].inject THEN NormalizeCrLf(streams[c].received) ELSE streams[c].received

\* the relay of controller c has read its upstream to the end, uncancelled
RelayedToEnd(c) == streams[c].pc = "ended" /\ ~streams[c].aborted

\* C15: when a stream has been relayed to the end of its upstream, the text
\* of its chunks without the activity and heartbeat blocks is the upstream
\* body, with CRLF replaced by LF on an activity-tracking stream.
C15_ChunksReconstructBody ==
    \A c \in Controllers :
        RelayedToEnd(c) => RelayedText(c) = ExpectedText(c)

\* the fragments of the upstream body read so far, as one split would give them
BodyFragments(c) == Split(ExpectedText(c), BlockSeparator)

\* C16: while a stream is being read, whatever the reads were, the blocks
\* split off so far are the fragments of the body read so far (CRLF taken as
\* LF on an activity-tracking stream) except the last one, and the last one
\* is the residual buffer, not yet emitted.
C16_FramingIndependentOfReads ==
    \A c \in Controllers :
        streams[c].pc = "reading" =>
            /\ streams[c].blocks = AllButLast(BodyFragments(c))
            /\ streams[c].sseBuffer = BodyFragments(c)[Len(BodyFragments(c))]

\* the text ends with the blank-line terminator of a block
EndsWithTerminator(text) ==
    /\ Len(text) >= Len(BlockSeparator)
    /\ SubSeq(text, Len(text) - Len(BlockSeparator) + 1, Len(text)) = BlockSeparator

\* C17: the chunk of every chunk message, from a read, from the final flush
\* or from the heartbeat timer, is one or more blocks each followed by the
\* blank-line terminator: it is not empty and it ends with the terminator.
C17_ChunksAreCompleteBlocks ==
    \A c \in Controllers :
        \A i \in DOMAIN streams[c].posted :
            IsChunk(streams[c].posted[i]) => EndsWithTerminator(streams[c].posted[i].chunk)

\* the data field of a block as its receiver parses it: the data lines joined
\* and parsed, with no unwrapping
ParsedData(block) ==
    LET dataLines == MapStrip(SelectSeq(Split(block, <<NL>>), IsDataLine))
        payloadText == Trim(JoinLines(dataLines))
    IN IF dataLines # <<>> /\ JsonParses(payloadText) THEN JsonParse(payloadText)
       ELSE JUndefined

\* { directory, payload } with the given payload
Envelope(payload) == JObj([directory |-> JStr(FallbackDirectory), payload |-> payload])

HasEnvelopeShape(block) ==
    LET data == ParsedData(block)
    IN /\ data.t = "obj"
       /\ DOMAIN data.f = {"directory", "payload"}
       /\ data.f.directory = JStr(FallbackDirectory)
       /\ data.f.payload.t \in {"obj", "null"}

IsHeartbeatMessage(m) == IsChunk(m) /\ m.chunk = HeartbeatChunk

\* C18 as stated: on a wrapped stream the data field of every block posted,
\* activity and heartbeat blocks included, parses to { directory, payload }.
C18_EveryBlockWrapped ==
    \A c \in Controllers :
        streams[c].wrap =>
            /\ \A i \in DOMAIN streams[c].emitted : HasEnvelopeShape(streams[c].emitted[i])
            /\ \A i \in DOMAIN streams[c].posted :
                  IsHeartbeatMessage(streams[c].posted[i]) =>
                      HasEnvelopeShape(buildHeartbeatEventBlock)

\* C18 amended: on a wrapped stream the blocks emitted by the relay, other
\* than the activity blocks (and the heartbeat blocks, which the timer
\* posts), are one for one the blocks split off the upstream body, and the
\* data field of each parses to { directory, payload } with the fallback
\* directory and the payload parsed from its source block, or null when the
\* source has none.
C18_UpstreamBlocksWrapped ==
    \A c \in Controllers :
        streams[c].wrap =>
            LET relayed == SelectSeq(streams[c].emitted, IsUpstreamBlock)
                sources == streams[c].blocks \o FlushedResidual(c)
            IN /\ Len(relayed) = Len(sources)
               /\ \A i \in DOMAIN relayed :
                     /\ ParsedData(relayed[i]) = Envelope(parseSseDataPayload(sources[i]))
                     /\ HasEnvelopeShape(relayed[i])

\* a wrapped stream has relayed a block with a payload and a block without
C18_Witness ==
    \E c \in Controllers :
        /\ streams[c].wrap
        /\ Len(DataChunks(c)) >= 1
        /\ Len(streams[c].blocks) >= 2
        /\ parseSseDataPayload(streams[c].blocks[1]) # JNull
        /\ parseSseDataPayload(streams[c].blocks[2]) = JNull

----------------------------------------------------------------------------
(* The heartbeat timer against a clock: now is the time in milliseconds since
   setInterval armed the timer of the stream *)

HeartbeatIntervalMs == 30000

QuietMs == 65000

MaxClock == 70000

ClockStep == 5000

HeartbeatCount(c) == Len(SelectSeq(streams[c].posted, IsHeartbeatMessage))

\* setInterval(callback, 30000): the callback is next due one interval after
\* its last run
NextDue(c) == (HeartbeatCount(c) + 1) * HeartbeatIntervalMs

\* time passes, up to the moment the timer is due
TimePasses(c) ==
    /\ streams[c].timer
    /\ streams[c].now < MaxClock
    /\ streams[c].now < NextDue(c)
    /\ streams' = [streams EXCEPT ![c].now =
                      IF @ + ClockStep < NextDue(c) THEN @ + ClockStep ELSE NextDue(c)]
    /\ UNCHANGED <<panels, entries, sseCounter, requests, pendingResponse>>

\* the timer is due and its callback runs
TimerFires(c) ==
    /\ streams[c].now = NextDue(c)
    /\ HeartbeatTick(c)

ClockReadValues == {<<Ch("a")>>, StatusBlock \o <<NL, NL>>}

ClockReads(c) == {value \in ClockReadValues : Len(streams[c].received) + Len(value) <= MaxRelayBody}

\* an activity-tracking stream that has just started
ClockInit == RelayInit /\ streams[1].inject

ClockNext ==
    \/ \E c \in Controllers : TimePasses(c)
    \/ \E c \in Controllers : TimerFires(c)
    \/ \E c \in Controllers : \E value \in ClockReads(c) : ReadBytes(c, value)
    \/ \E c \in Controllers : ReadDone(c)
    \/ \E c \in Controllers : ReadError(c)

ClockSpec == ClockInit /\ [][ClockNext]_vars

\* a run of the timer callback on an uncancelled stream posts exactly one
\* chunk, the heartbeat block and its terminator, and changes nothing else
TickPostsHeartbeat ==
    \A c \in Controllers :
        (HeartbeatTick(c) /\ ~streams[c].aborted) =>
            /\ streams' = [streams EXCEPT ![c].posted =
                              Append(@, [type |-> "api:sse:chunk",
                                         streamId |-> streams[c].id,
                                         chunk |-> buildHeartbeatEventBlock \o <<NL, NL>>])]
            /\ streams'[c].sseBuffer = streams[c].sseBuffer
            /\ UNCHANGED <<panels, entries, sseCounter, requests, pendingResponse>>

\* on a live activity-tracking stream one heartbeat has been posted for every
\* interval that has passed, whatever was read meanwhile; after 65 seconds
\* without a read there are at least two, and no data chunk
HeartbeatsKeepPace ==
    \A c \in Controllers :
        (streams[c].inject /\ streams[c].pc = "reading" /\ ~streams[c].aborted) =>
            /\ HeartbeatCount(c) * HeartbeatIntervalMs <= streams[c].now
            /\ streams[c].now <= (HeartbeatCount(c) + 1) * HeartbeatIntervalMs
            /\ (streams[c].now >= QuietMs /\ streams[c].received = <<>>) =>
                  /\ HeartbeatCount(c) >= 2
                  /\ DataChunks(c) = <<>>

\* C19: while an activity-tracking stream is live and not cancelled, every
\* run of the 30-second timer posts one standalone heartbeat chunk and leaves
\* the residual buffer alone, whatever the upstream does; so after 65 seconds
\* without upstream traffic at least two heartbeat chunks, and no data chunk,
\* have been delivered.
C19_HeartbeatEveryInterval == [][TickPostsHeartbeat]_vars /\ []HeartbeatsKeepPace

\* 65 seconds have passed without a read and two heartbeats were posted
C19_Witness ==
    \E c \in Controllers :
        /\ streams[c].pc = "reading"
        /\ streams[c].now >= QuietMs
        /\ streams[c].received = <<>>
        /\ HeartbeatCount(c) = 2

----------------------------------------------------------------------------
(* The heartbeat callback on a cancelled stream. _stopSseProxy and
   _disposePanel clear the timer in the turn in which they abort the
   controller, so Spec never runs the callback on an aborted stream; here the
   callback is run on one, as for a tick that was already due. *)

LateHeartbeatTick(c) ==
    /\ pendingResponse = 0
    /\ streams[c].inject
    /\ streams[c].aborted
    /\ MayRaiseEvent
    /\ HeartbeatCallback(c)

CancelInit == RelayInit /\ streams[1].inject

CancelNext ==
    \/ \E c \in Controllers : \E value \in ClockReads(c) : ReadBytes(c, value)
    \/ \E c \in Controllers : ReadDone(c)
    \/ \E c \in Controllers : ReadError(c)
    \/ \E c \in Controllers : HeartbeatTick(c)
    \/ \E e \in Entries, streamId \in StreamIdInputs : ReceiveStop(e, streamId)
    \/ \E e \in Entries : PanelDisposed(e)
    \/ \E c \in Controllers : LateHeartbeatTick(c)

CancelSpec == CancelInit /\ [][CancelNext]_vars

\* C20: a run of the heartbeat callback on a stream whose controller has been
\* aborted, by a stop request or by the disposal of its panel, posts no
\* message and changes nothing in the panels, their maps, the streams, the
\* counter or the requests; only the count of such runs records it.
C20_LateTickIsNoOp ==
    [][\A c \in Controllers :
          (streams[c].aborted /\ streams'[c].lateTicks = streams[c].lateTicks + 1) =>
              /\ streams' = [streams EXCEPT ![c].lateTicks = @ + 1]
              /\ AllPosted' = AllPosted
              /\ UNCHANGED <<panels, entries, sseCounter, requests, pendingResponse>>]_vars

\* the callback has run on a stream that a stop request has cancelled and
\* whose panel has been disposed
C20_Witness ==
    \E c \in Controllers :
        /\ streams[c].aborted
        /\ streams[c].lateTicks >= 1
        /\ OwnerDisposed(c)
        /\ \E i \in DOMAIN requests : requests[i].type = "api:sse:stop"

----------------------------------------------------------------------------
(* The relay task under fair scheduling *)

\* the pending reader.read() of a stream whose controller is aborted
\* rejects: aborting the signal of the fetch errors the body being read
AbortedReadRejects(c) ==
    /\ c \in Controllers
    /\ streams[c].aborted
    /\ ReadError(c)

\* the state after createOrShow("s1") and an api:sse:start of that panel
\* whose first fetch is in flight
FetchingInit ==
    \E path \in PathInputs, headers \in HeaderInputs :
        /\ UrlConstructs(NormalizedPath(path))
        /\ panels = MapSet(EmptyMap, "s1", 1)
        /\ entries = <<[NewEntry("s1") EXCEPT !.outbox = <<ConnectionStatusMessage>>]>>
        /\ sseCounter = 1
        /\ requests = <<[type |-> "api:sse:start", entry |-> 1, hasApiUrl |-> TRUE]>>
        /\ pendingResponse = 0
        /\ streams = <<NewStream(1, 1, 1, [path |-> path, headers |-> headers],
                                 NormalizedPath(path), _buildSseHeaders(headers))>>

\* one stream from its fetch to the end of its relay task, with stop requests
\* and the disposal of its panel
StreamNext ==
    \/ \E c \in Controllers, outcome \in FetchOutcomes : FetchSettles(c, outcome)
    \/ \E c \in Controllers : PostStartResponse(c)
    \/ \E e \in Entries, streamId \in StreamIdInputs : ReceiveStop(e, streamId)
    \/ \E e \in Entries : PanelDisposed(e)
    \/ \E c \in Controllers : \E value \in ClockReads(c) : ReadBytes(c, value)
    \/ \E c \in Controllers : ReadDone(c)
    \/ \E c \in Controllers : ReadError(c)
    \/ \E c \in Controllers : HeartbeatTick(c)

FairSpec ==
    /\ FetchingInit
    /\ [][StreamNext]_vars
    /\ \A c \in 1..MaxStreams : WF_vars(AbortedReadRejects(c))

\* the relay task of controller c has run its finally block
RelayFinished(c) == c \in Controllers /\ streams[c].pc \in {"ended", "errored"}

\* the stream of controller c is in neither map of its panel and has no timer
CleanedUp(c) ==
    LET st == streams[c]
    IN /\ st.id \notin DOMAIN entries[st.owner].sseStreams
       /\ st.id \notin DOMAIN entries[st.owner].sseHeartbeats
       /\ ~st.timer

\* the relay task of controller c is reading and its controller is aborted
CancelledWhileReading(c) ==
    c \in Controllers /\ streams[c].pc = "reading" /\ streams[c].aborted

\* C21: once the relay task of a stream has finished, by completion, read
\* failure or cancellation, its id is in neither the stream map nor the
\* heartbeat map of its panel and its timer is stopped; and a registered
\* stream that is cancelled eventually has its relay task finished and is
\* cleaned up (completion and failure of the upstream finish the task in the
\* step in which they are read).
C21_CleanupUnconditional ==
    /\ [](\A c \in Controllers : RelayFinished(c) => CleanedUp(c))
    /\ \A c \in 1..MaxStreams :
          CancelledWhileReading(c) ~> (RelayFinished(c) /\ CleanedUp(c))

\* a stream cancelled by a stop request has finished its relay task
C21_Witness ==
    \E c \in Controllers :
        /\ streams[c].pc = "ended" /\ streams[c].aborted /\ streams[c].inject
        /\ ~OwnerDisposed(c)

----------------------------------------------------------------------------
(* Isolation of panels *)

\* the step is a request of panel e, the disposal of panel e, or a step of a
\* start or of a relay task of panel e
ActsOn(e) ==
    \/ /\ Len(requests') > Len(requests)
       /\ requests'[Len(requests')].entry = e
    \/ entries'[e].disposed # entries[e].disposed
    \/ \E c \in Controllers : streams[c].owner = e /\ streams'[c].pc # streams[c].pc

\* the step leaves the stream map and the timer map of panel f as they are,
\* aborts no controller of f and stops no timer of f
Untouched(f) ==
    /\ entries'[f].sseStreams = entries[f].sseStreams
    /\ entries'[f].sseHeartbeats = entries[f].sseHeartbeats
    /\ \A c \in Controllers :
          streams[c].owner = f =>
              /\ streams'[c].aborted = streams[c].aborted
              /\ streams'[c].timer = streams[c].timer

\* C22: a start, a stop, the completion of a stream or the disposal of one
\* panel leaves the stream map, the timer map, the controllers and the timers
\* of every other panel as they are, and so does the opening of a new panel;
\* in particular a stop request of panel A that names a stream of panel B
\* leaves that stream registered, uncancelled and with its timer running.
C22_PanelsIsolated ==
    [][/\ \A e \in Entries : ActsOn(e) => \A f \in Entries \ {e} : Untouched(f)
       /\ Len(entries') > Len(entries) => \A f \in Entries : Untouched(f)]_vars

\* panel A has sent a stop request naming the stream of panel B, which is
\* still registered with its timer running
C22_Witness ==
    \E i \in DOMAIN requests, c \in Controllers :
        /\ requests[i].type = "api:sse:stop"
        /\ requests[i].entry # streams[c].owner
        /\ requests[i].streamId = streams[c].id
        /\ streams[c].id \in DOMAIN entries[streams[c].owner].sseStreams
        /\ streams[c].id \in DOMAIN entries[streams[c].owner].sseHeartbeats
        /\ streams[c].timer
        /\ ~streams[c].aborted

----------------------------------------------------------------------------
(* Malformed frame content *)

\* blocks with no data line, with an empty data field, with data that is no JSON
NoDataBlock == <<Ch("a")>>

EmptyDataBlock == <<DataPrefix>>

UnparsableBlock == <<DataPrefix, SP, Ch("{oops")>>

MalformedBlocks == {NoDataBlock, EmptyDataBlock, UnparsableBlock}

FrameReadValues ==
    {block \o BlockSeparator : block \in MalformedBlocks \cup {StatusBlock}}
        \cup {UnparsableBlock}

FrameReads(c) == {value \in FrameReadValues : Len(streams[c].received) + Len(value) <= MaxRelayBody}

FrameNext ==
    \/ \E c \in Controllers : \E value \in FrameReads(c) : ReadBytes(c, value)
    \/ \E c \in Controllers : ReadDone(c)
    \/ \E c \in Controllers : HeartbeatTick(c)

\* a started stream whose upstream sends malformed and well-formed blocks and
\* never fails
FrameSpec == RelayInit /\ [][FrameNext]_vars

\* the joined and trimmed data field of a block
BlockDataText(block) ==
    Trim(JoinLines(MapStrip(SelectSeq(Split(block, <<NL>>), IsDataLine))))

IsMalformedBlock(block) ==
    \/ SelectSeq(Split(block, <<NL>>), IsDataLine) = <<>>
    \/ BlockDataText(block) = <<>>
    \/ ~JsonParses(BlockDataText(block))

\* the number of upstream blocks among the first i emitted blocks
UpstreamIndex(emitted, i) == Len(SelectSeq(SubSeq(emitted, 1, i), IsUpstreamBlock))

\* C23: on a stream whose upstream does not fail, every block split off the
\* body is relayed, those after a malformed block included; a block with no
\* data line, with empty data or with unparsable data decodes to no payload
\* and is not followed by an activity block; no end message carries an error
\* and the relay task never ends in failure.
C23_MalformedBlocksRelayed ==
    \A c \in Controllers :
        LET st == streams[c]
            E == st.emitted
            S == st.blocks \o FlushedResidual(c)
        IN /\ Len(SelectSeq(E, IsUpstreamBlock)) = Len(S)
           /\ \A i \in DOMAIN S :
                 IsMalformedBlock(S[i]) => parseSseDataPayload(S[i]) = JNull
           /\ \A i \in DOMAIN E :
                 (IsUpstreamBlock(E[i]) /\ IsMalformedBlock(S[UpstreamIndex(E, i)])) =>
                     (i = Len(E) \/ IsUpstreamBlock(E[i + 1]))
           /\ \A i \in DOMAIN st.posted :
                 IsEnd(st.posted[i]) => "error" \notin DOMAIN st.posted[i]
           /\ st.pc # "errored"

\* an activity-tracking stream has relayed a malformed block and then a
\* status block with its activity block
C23_Witness ==
    \E c \in Controllers :
        /\ Len(streams[c].blocks) = 2
        /\ streams[c].blocks[1] \in MalformedBlocks
        /\ streams[c].blocks[2] = StatusBlock
        /\ Len(streams[c].emitted) = 3
        /\ IsActivityBlock(streams[c].emitted[3])
        /\ Len(DataChunks(c)) = 2

----------------------------------------------------------------------------
(* The codec and the activity deriver over a range of payloads *)

\* an object field that may be absent
Opt(key, v) == IF v.t = "undefined" THEN EmptyMap ELSE (key :> v)

SessionIDValues == {JUndefined, JNull, JStr(""), JStr("s1"), JNum(7)}

SessionIdValues == {JUndefined, JStr("s2")}

StatusValues ==
    {JUndefined, JStr("busy")}
        \cup {JObj(Opt("type", t)) :
                 t \in {JUndefined, JNum(5), JStr("busy"), JStr("retry"), JStr("idle"),
                        JStr("error")}}

\* properties: absent, no object, or an object with ids and a status
PropertiesValues ==
    {JUndefined, JStr("p")}
        \cup {JObj(Opt("sessionID", a) @@ Opt("sessionId", b) @@ Opt("status", st)) :
                 a \in SessionIDValues, b \in SessionIdValues, st \in StatusValues}

StatusPayloads ==
    {JObj(("type" :> JStr("session.status")) @@ Opt("properties", p)) : p \in PropertiesValues}

IdlePayloads ==
    {JObj(("type" :> JStr("session.idle")) @@ Opt("properties", p)) :
        p \in {q \in PropertiesValues : Get(q, "status") = JUndefined}}

InfoValues ==
    {JUndefined, JStr("i")}
        \cup {JObj(Opt("role", r) @@ Opt("finish", f) @@ Opt("sessionID", a) @@ Opt("sessionId", b)) :
                 r \in {JUndefined, JStr("assistant"), JStr("user")},
                 f \in {JUndefined, JStr("stop"), JStr("length")},
                 a \in {JUndefined, JStr(""), JStr("s3")},
                 b \in {JUndefined, JStr("s4")}}

MessagePayloads ==
    {JObj(("type" :> t) @@ Opt("info", i) @@ Opt("properties", p)) :
        t \in {JStr("message.updated"), JStr("message.complete")},
        i \in InfoValues,
        p \in {JUndefined, JObj("sessionID" :> JStr("s1")), JObj("sessionId" :> JStr("s2"))}}

OtherPayloads ==
    {JObj("a" :> JNum(1)),
     JObj(("type" :> JStr("server.connected")) @@ ("properties" :> JObj("sessionID" :> JStr("s1")))),
     JObj(("type" :> JNum(1)) @@ ("properties" :> JObj("sessionID" :> JStr("s1")))),
     JObj("payload" :> JStr("text")),
     JObj("payload" :> JNull),
     JArr(<<JNum(1)>>),
     JStr("text"), JNum(1), JNull}

FlatPayloads == StatusPayloads \cup IdlePayloads \cup MessagePayloads \cup OtherPayloads

\* values that carry a nested payload, one and two levels deep
NestedPayloads ==
    {JObj(("directory" :> JStr("/d")) @@ ("payload" :> BusyStatus)),
     JObj(("type" :> JStr("session.idle")) @@ ("payload" :> BusyStatus)
          @@ ("properties" :> JObj("sessionID" :> JStr("s9")))),
     JObj("payload" :> JObj("payload" :> BusyStatus)),
     JObj("payload" :> JArr(<<BusyStatus>>))}

PayloadInputs == FlatPayloads \cup NestedPayloads

\* an event block with one data line holding the serialized value
DataBlock(v) == JoinLines(<<EventLine, <<DataPrefix, SP>> \o JsonStringify(v)>>)

CodecBlocks ==
    {DataBlock(v) : v \in PayloadInputs}
        \cup MalformedBlocks
        \cup {JoinLines(<<<<DataPrefix>> \o JsonStringify(BusyStatus), <<DataPrefix, SP, SP>>>>),
              JoinLines(<<<<DataPrefix, SP>> \o JsonStringify(BusyStatus),
                          <<DataPrefix, SP>> \o JsonStringify(BusyStatus)>>)}

CodecReads(c) == {block \o BlockSeparator : block \in CodecBlocks}

CodecNext ==
    \/ \E c \in Controllers, outcome \in FetchOutcomes : FetchSettles(c, outcome)
    \/ \E c \in Controllers : PostStartResponse(c)
    \/ \E c \in Controllers : \E value \in CodecReads(c) :
          streams[c].received = <<>> /\ ReadBytes(c, value)
    \/ \E c \in Controllers : ReadDone(c)
    \/ \E c \in Controllers : HeartbeatTick(c)

\* one stream, from its first fetch on, whose upstream sends one block
CodecSpec == FetchingInit /\ [][CodecNext]_vars

\* the blocks the relay of some stream has split off and decoded
DecodedBlocks == UNION {{streams[c].blocks[i] : i \in DOMAIN streams[c].blocks} : c \in Controllers}

\* a keyed record, as opposed to an array, a string, a number or null
IsRecord(v) == v.t = "obj"

HasDataLine(block) == SelectSeq(Split(block, <<NL>>), IsDataLine) # <<>>

\* what the decoding of a block is stated to return
StatedDecode(block) ==
    IF ~HasDataLine(block) \/ BlockDataText(block) = <<>> \/ ~JsonParses(BlockDataText(block))
    THEN JNull
    ELSE LET parsed == JsonParse(BlockDataText(block))
         IN IF ~IsRecord(parsed) THEN JNull
            ELSE IF IsRecord(Get(parsed, "payload")) THEN Get(parsed, "payload")
            ELSE parsed

\* C24: decoding a block gives null when the block has no data line, when
\* the joined data text is empty, when parsing fails or when the parsed value
\* is not an object; the nested object field payload of the parsed object when
\* it has one (one level only); otherwise the parsed object itself.
C24_DecodeUnwrapsOneLevel ==
    \A block \in DecodedBlocks : parseSseDataPayload(block) = StatedDecode(block)

\* properties.sessionID ?? properties.sessionId of a payload
PropertiesSessionId(payload) ==
    Coalesce(Get(Get(payload, "properties"), "sessionID"),
             Get(Get(payload, "properties"), "sessionId"))

StatusTypeOf(payload) == Get(Get(Get(payload, "properties"), "status"), "type")

StatedStatusActivity(payload) ==
    [sessionId |-> PropertiesSessionId(payload).v,
     phase |-> IF StatusTypeOf(payload) \in {JStr("busy"), JStr("retry")} THEN "busy" ELSE "idle"]

\* C25 as stated: for a payload of type session.status whose
\* properties.status.type is present and whose properties.sessionID (or
\* sessionId) is a non-empty string, the deriver returns that session id with
\* phase busy for the status types busy and retry and idle for any other.
C25_StatusPresentGivesPhase ==
    \A block \in DecodedBlocks :
        LET payload == parseSseDataPayload(block)
        IN (/\ Get(payload, "type") = JStr("session.status")
            /\ StatusTypeOf(payload) # JUndefined
            /\ IsNonEmptyString(PropertiesSessionId(payload)))
           => deriveSessionActivity(payload) = StatedStatusActivity(payload)

\* C25: for a payload of type session.status whose properties.status.type
\* is a string and whose properties.sessionID ?? properties.sessionId is a
\* non-empty string, the deriver returns that session id with phase busy for
\* the status types busy and retry and idle for any other string.
C25_StatusStringGivesPhase ==
    \A block \in DecodedBlocks :
        LET payload == parseSseDataPayload(block)
        IN (/\ Get(payload, "type") = JStr("session.status")
            /\ StatusTypeOf(payload).t = "str"
            /\ IsNonEmptyString(PropertiesSessionId(payload)))
           => deriveSessionActivity(payload) = StatedStatusActivity(payload)

\* an activity-tracking stream has relayed a retry status of session s2,
\* named by sessionId only, followed by its busy activity block
C25_Witness ==
    \E c \in Controllers :
        /\ streams[c].inject
        /\ \E i \in DOMAIN streams[c].blocks :
             LET payload == parseSseDataPayload(streams[c].blocks[i])
             IN /\ Get(payload, "type") = JStr("session.status")
                /\ StatusTypeOf(payload) = JStr("retry")
                /\ Get(Get(payload, "properties"), "sessionID") = JUndefined
                /\ PropertiesSessionId(payload) = JStr("s2")
        /\ \E j \in DOMAIN streams[c].emitted :
             streams[c].emitted[j] = buildActivityEventBlock([sessionId |-> "s2", phase |-> "busy"])

\* info.sessionID ?? info.sessionId ?? properties.sessionID ?? properties.sessionId
MessageSessionId(payload) ==
    Coalesce(Get(Get(payload, "info"), "sessionID"),
             Coalesce(Get(Get(payload, "info"), "sessionId"), PropertiesSessionId(payload)))

IsMessagePayload(payload) ==
    Get(payload, "type") \in {JStr("message.updated"), JStr("message.complete")}

IsFinishedAssistantMessage(payload) ==
    /\ Get(Get(payload, "info"), "role") = JStr("assistant")
    /\ Get(Get(payload, "info"), "finish") = JStr("stop")

\* C26: for a payload of type message.updated or message.complete the
\* deriver returns phase cooldown, with the session id resolved from
\* info.sessionID, info.sessionId, properties.sessionID, properties.sessionId in
\* that order, exactly when info.role is assistant, info.finish is stop and the
\* resolved id is a non-empty string; with any other role or finish it returns
\* null, and it returns nothing but that cooldown or null.
C26_CooldownExactlyWhenFinished ==
    \A block \in DecodedBlocks :
        LET payload == parseSseDataPayload(block)
            activity == deriveSessionActivity(payload)
        IN IsMessagePayload(payload) =>
             /\ activity.phase = "cooldown"
                  <=> (IsFinishedAssistantMessage(payload)
                         /\ IsNonEmptyString(MessageSessionId(payload)))
             /\ activity.phase = "cooldown" => activity.sessionId = MessageSessionId(payload).v
             /\ activity.phase # "cooldown" => activity = NoActivity
             /\ ~IsFinishedAssistantMessage(payload) => activity = NoActivity

\* an activity-tracking stream has relayed a finished assistant message whose
\* info names no session, followed by the cooldown block of the session that
\* its properties name
C26_Witness ==
    \E c \in Controllers :
        /\ streams[c].inject
        /\ \E i \in DOMAIN streams[c].blocks :
             LET payload == parseSseDataPayload(streams[c].blocks[i])
             IN /\ Get(payload, "type") = JStr("message.complete")
                /\ IsFinishedAssistantMessage(payload)
                /\ Get(Get(payload, "info"), "sessionID") = JUndefined
                /\ Get(Get(payload, "info"), "sessionId") = JUndefined
                /\ MessageSessionId(payload) = JStr("s2")
        /\ \E j \in DOMAIN streams[c].emitted :
             streams[c].emitted[j] = buildActivityEventBlock([sessionId |-> "s2", phase |-> "cooldown"])

ActivityTypes ==
    {JStr("session.status"), JStr("message.updated"), JStr("message.complete"),
     JStr("session.idle")}

Phases == {"idle", "busy", "cooldown"}

\* C27: for every decoded payload the deriver returns null or a record
\* with a non-empty session id and a phase among idle, busy and cooldown; a
\* session.idle payload with a non-empty properties.sessionID ??
\* properties.sessionId gives idle for that id; a null payload and a payload of
\* a type other than the four handled give null.
C27_AllOrNothing ==
    \A block \in DecodedBlocks :
        LET payload == parseSseDataPayload(block)
            activity == deriveSessionActivity(payload)
        IN /\ \/ activity = NoActivity
              \/ activity.sessionId # "" /\ activity.phase \in Phases
           /\ (Get(payload, "type") = JStr("session.idle")
                 /\ IsNonEmptyString(PropertiesSessionId(payload)))
                => activity = [sessionId |-> PropertiesSessionId(payload).v, phase |-> "idle"]
           /\ (payload = JNull \/ Get(payload, "type") \notin ActivityTypes)
                => activity = NoActivity

\* an activity-tracking stream has relayed a session.idle block of session
\* s1 followed by its idle activity block
C27_Witness ==
    \E c \in Controllers :
        /\ streams[c].inject
        /\ \E i \in DOMAIN streams[c].blocks :
             LET payload == parseSseDataPayload(streams[c].blocks[i])
             IN /\ Get(payload, "type") = JStr("session.idle")
                /\ PropertiesSessionId(payload) = JStr("s1")
        /\ \E j \in DOMAIN streams[c].emitted :
             streams[c].emitted[j] = buildActivityEventBlock([sessionId |-> "s1", phase |-> "idle"])

----------------------------------------------------------------------------
(* Timers and cancellation handles *)

\* C28: in every reachable state and for every panel entry, each stream
\* id with a heartbeat timer in sseHeartbeats also has a cancellation handle in
\* sseStreams, whatever starts, stops, relay cleanups and disposals came before.
C28_TimerImpliesController ==
    \A e \in Entries : DOMAIN entries[e].sseHeartbeats \subseteq DOMAIN entries[e].sseStreams

\* the owner of an activity-tracking stream that is still being read has
\* handled a stop request for it and holds neither its timer nor its handle
C28_Witness ==
    \E c \in Controllers :
        LET st == streams[c]
        IN /\ st.inject
           /\ st.pc = "reading"
           /\ ~entries[st.owner].disposed
           /\ \E i \in DOMAIN requests :
                /\ requests[i].type = "api:sse:stop"
                /\ requests[i].entry = st.owner
                /\ requests[i].streamId = st.id
           /\ st.id \notin DOMAIN entries[st.owner].sseHeartbeats
           /\ st.id \notin DOMAIN entries[st.owner].sseStreams

----------------------------------------------------------------------------
(* Wrapping and activity derivation *)

ActivityOf(block) == deriveSessionActivity(parseSseDataPayload(block))

\* C29: the activity derived from a wrapped block equals the activity
\* derived from the original block, for every block a stream reads; the
\* activity blocks a wrapped stream emits are those the same blocks give
\* without wrapping; and only an activity-tracking stream is wrapped.
C29_WrapTransparentToActivity ==
    /\ \A block \in DecodedBlocks :
         ActivityOf(WrapBlock(block, FallbackDirectory)) = ActivityOf(block)
    /\ \A c \in Controllers :
         streams[c].wrap =>
           /\ streams[c].inject
           /\ SelectSeq(streams[c].emitted, IsActivityBlock)
                = SelectSeq(expandSseBlocksWithActivity(streams[c].blocks), IsActivityBlock)

\* a wrapped stream has relayed a block in its envelope, followed by the
\* activity block derived from it
C29_Witness ==
    \E c \in Controllers :
        /\ streams[c].wrap
        /\ Len(streams[c].blocks) = 1
        /\ ActivityOf(streams[c].blocks[1]) # NoActivity
        /\ Len(streams[c].emitted) = 2
        /\ streams[c].emitted[1] = WrapBlock(streams[c].blocks[1], FallbackDirectory)
        /\ streams[c].emitted[1] # streams[c].blocks[1]
        /\ streams[c].emitted[2] = buildActivityEventBlock(ActivityOf(streams[c].blocks[1]))

----------------------------------------------------------------------------
(* One panel per session *)

\* the registry names each live panel entry under its own key, and nothing else
OnePanelPerSession ==
    /\ \A e, f \in LiveEntries : entries[e].key = entries[f].key => e = f
    /\ \A e \in LiveEntries : entries[e].key \in DOMAIN panels /\ panels[entries[e].key] = e
    /\ \A k \in DOMAIN panels : panels[k] \in LiveEntries /\ k # ""

\* a registered key keeps its entry, and a new entry takes an unregistered
\* key and leaves every existing entry and stream as it was
NoPanelOverwritten ==
    /\ \A k \in DOMAIN panels \cap DOMAIN panels' : panels'[k] = panels[k]
    /\ Len(entries') > Len(entries) =>
         /\ entries'[Len(entries')].key \notin DOMAIN panels
         /\ SubSeq(entries', 1, Len(entries)) = entries
         /\ streams' = streams

\* C30: an open for a session id that has a live panel creates no second
\* panel and leaves that panel's stream and timer sets as they are, and an open
\* with an empty id changes nothing: in every state the registry holds at most
\* one live panel entry per session id, and no step replaces the entry of a
\* registered session id.
C30_OnePanelPerSession == []OnePanelPerSession /\ [][NoPanelOverwritten]_vars

\* a session opened, disposed and opened again, whose second panel owns a
\* registered stream
C30_Witness ==
    \E e, f \in Entries :
        /\ e # f
        /\ entries[e].key = entries[f].key
        /\ entries[e].disposed
        /\ ~entries[f].disposed
        /\ panels[entries[f].key] = f
        /\ entries[f].sseStreams # EmptyMap

====
